---- MODULE Spec2Model ----
(***************************************************************************)
(* Model of musicbot/bot.py: VersionableTree, the command tree that syncs  *)
(* itself with the remote registry only when its content hash changed      *)
(* (sync_if_commands_updated) and that resolves command mentions from a    *)
(* per-guild cache of remote command records (find_mention_for).           *)
(*                                                                         *)
(* Every coroutine is cut at its awaits: a task that awaits a remote call  *)
(* sits at a "pushing"/"fetching" position while the request travels, the  *)
(* registry serves it and the response travels back, until the call        *)
(* returns or raises; the code between two awaits is one atomic step of    *)
(* the event loop.                                                         *)
(***************************************************************************)
EXTENDS Integers, Sequences, FiniteSets, TLC

\* Number of overlapping sync_if_commands_updated invocations.
NumSyncers == 1
\* Number of overlapping find_mention_for invocations.
NumFinders == 1

\* Number of messages a command sends for an interaction before it raises.
MaxReplies == 2

\* Number of get_hash results kept for comparison.
MaxDigests == 2

\* Size in bytes of an xxh3_64 digest.
DigestSize == 8
\* seed=1 of xxhash.xxh3_64_digest.
Seed == 1

Syncers == 1..NumSyncers
\* The invocations a process can have: those of setup_hook and one more, made when
\* setup is run again (reconnection) while an earlier invocation is still suspended.
Invocations == 1..(NumSyncers + 1)
Finders == 1..NumFinders

\* Keys of application_commands: None (global) or a guild id.
NoGuild == "None"
Guilds == {"A", "B"}
Scopes == Guilds \cup {NoGuild}

\* Optional values: <<>> is None, <<x>> is x.
None == <<>>
Some(x) == <<x>>
IsNone(o) == o = <<>>
Val(o) == o[1]

(***************************************************************************)
(* The declared commands (APP_COMMANDS added to the tree in setup_hook).   *)
(* A top-level command has a name, a description text, the guild it is     *)
(* declared for and, when it is a group, children.                         *)
(***************************************************************************)
Child(name, text) == [name |-> name, text |-> text]
Cmd(name, text, guild, children) ==
    [name |-> name, text |-> text, guild |-> guild, children |-> children]

\* The command sets a build of the bot may declare, in registration order.
Trees ==
    << << Cmd("play", "t1", NoGuild, <<>>),
          Cmd("queue", "t1", NoGuild, <<Child("add", "t1")>>),
          Cmd("add", "t1", "A", <<>>) >>,
       << Cmd("play", "t2", NoGuild, <<>>),
          Cmd("queue", "t1", NoGuild, <<Child("add", "t1")>>),
          Cmd("play", "t1", "A", <<>>) >> >>

\* Every string of the model, in lexicographic order; Ord is its rank.
Strings == <<"add", "play", "queue", "t1", "t2">>
Ord(s) == CHOOSE i \in 1..Len(Strings) : Strings[i] = s

\* CommandTree._get_all_commands(guild=...): the top-level commands of a scope.
GetAllCommands(tree, guild) == SelectSeq(tree, LAMBDA c : c.guild = guild)

\* A command as find_mention_for sees it: qualified_name, name, root_parent, and the
\* description that tells two commands of the same name apart.
Walked(qn, name, root, description) ==
    [qualified_name |-> qn, name |-> name, root_parent |-> root, description |-> description]

RECURSIVE WalkChildren(_, _)
WalkChildren(c, k) ==
    IF k > Len(c.children) THEN <<>>
    ELSE <<Walked(<<c.name, c.children[k].name>>, c.children[k].name, Some(c.name),
                  c.children[k].text)>>
         \o WalkChildren(c, k + 1)

\* CommandTree.walk_commands(guild=...): each command followed by its children.
RECURSIVE WalkFrom(_, _)
WalkFrom(cmds, k) ==
    IF k > Len(cmds) THEN <<>>
    ELSE <<Walked(<<cmds[k].name>>, cmds[k].name, None, cmds[k].text)>>
         \o WalkChildren(cmds[k], 1) \o WalkFrom(cmds, k + 1)

walk_commands(tree, guild) == WalkFrom(GetAllCommands(tree, guild), 1)

\* discord.utils.get(iterable, qualified_name=value): the first match, or None.
RECURSIVE GetQualifiedNameFrom(_, _, _)
GetQualifiedNameFrom(s, value, k) ==
    IF k > Len(s) THEN None
    ELSE IF s[k].qualified_name = value THEN Some(s[k])
    ELSE GetQualifiedNameFrom(s, value, k + 1)

utils_get_qualified_name(s, value) == GetQualifiedNameFrom(s, value, 1)

\* discord.utils.get(iterable, name=value): the first match, or None.
RECURSIVE GetNameFrom(_, _, _)
GetNameFrom(s, value, k) ==
    IF k > Len(s) THEN None
    ELSE IF s[k].name = value THEN Some(s[k]) ELSE GetNameFrom(s, value, k + 1)

utils_get_name(s, value) == GetNameFrom(s, value, 1)

(***************************************************************************)
(* get_hash: the global commands sorted by qualified name, serialised and  *)
(* reduced to an 8-byte digest.                                            *)
(***************************************************************************)
\* sorted(..., key=lambda c: c.qualified_name): stable insertion sort.
RECURSIVE InsertSorted(_, _)
InsertSorted(c, s) ==
    IF s = <<>> THEN <<c>>
    ELSE IF Ord(c.name) < Ord(Head(s).name) THEN <<c>> \o s
    ELSE <<Head(s)>> \o InsertSorted(c, Tail(s))

RECURSIVE SortedFrom(_, _)
SortedFrom(cmds, k) ==
    IF k = 0 THEN <<>> ELSE InsertSorted(cmds[k], SortedFrom(cmds, k - 1))

sorted(cmds) == SortedFrom(cmds, Len(cmds))

RECURSIVE ChildrenDict(_, _)
ChildrenDict(ch, k) ==
    IF k > Len(ch) THEN <<>>
    ELSE <<Ord(ch[k].name), Ord(ch[k].text)>> \o ChildrenDict(ch, k + 1)

\* command.to_dict(tree): name, description and options, as the bytes json.dumps gives.
to_dict(c) == <<Ord(c.name), Ord(c.text), Len(c.children)>> \o ChildrenDict(c.children, 1)

RECURSIVE Payload(_, _)
Payload(cmds, k) ==
    IF k > Len(cmds) THEN <<>> ELSE to_dict(cmds[k]) \o Payload(cmds, k + 1)

\* xxhash.xxh3_64_digest(data, seed): a seeded mixing of every input byte...
RECURSIVE Mix(_, _, _)
Mix(data, k, acc) ==
    IF k > Len(data) THEN acc ELSE Mix(data, k + 1, (acc * 31 + data[k]) % 65536)

\* ...spread over DigestSize bytes.
xxh3_64_digest(data, seed) ==
    LET h == Mix(data, 1, seed)
    IN  [k \in 1..DigestSize |-> (h * k + (h \div 256) + k) % 256]

get_hash(tree) ==
    LET tree_commands == sorted(GetAllCommands(tree, NoGuild))
    IN  xxh3_64_digest(Payload(tree_commands, 1), Seed)

(***************************************************************************)
(* The remote registry (Discord's application-command endpoints).         *)
(***************************************************************************)
\* The registry's number for a scope, part of the identifiers it assigns.
ScopeNo(scope) == CASE scope = NoGuild -> 1 [] scope = "A" -> 2 [] scope = "B" -> 3

\* The identifier the registry assigns to the command `name` of a scope.
RemoteId(scope, name) == ScopeNo(scope) * 10 + Ord(name)

\* The AppCommand list the registry returns for a bulk upsert of `cmds`.
RecordsFor(cmds, scope) ==
    [k \in 1..Len(cmds) |-> [id |-> RemoteId(scope, cmds[k].name), name |-> cmds[k].name]]

(***************************************************************************)
(* State.                                                                  *)
(***************************************************************************)
VARIABLES
    tree,                  \* the commands added to the tree, in registration order
    fallback_to_global,    \* CommandTree.fallback_to_global
    application_commands,  \* the cache: scope key -> list of AppCommand
    file,                  \* the bytes of musicbot_tree.hash
    remote,                \* the registry: scope -> list of AppCommand
    syncer,                \* the sync_if_commands_updated invocations
    finder,                \* the find_mention_for invocations
    interrupted,           \* history: the last invocation cut short at its push
    last_synced,           \* history: the digest of the last completed invocation
    digests,               \* history: the trees get_hash was called on, with its results
    itx                    \* the interaction on_error is called with, and what was sent

vars == <<tree, fallback_to_global, application_commands, file, remote,
          syncer, finder, interrupted, last_synced, digests, itx>>

\* Mutant of DictSet: the new list is merged into the entry the key already has.
DictSet_merge(d, key, value) ==
    [k \in DOMAIN d \cup {key} |->
        IF k = key THEN (IF key \in DOMAIN d THEN d[key] \o value ELSE value) ELSE d[k]]

\* dict[key] = value
DictSet(d, key, value) == [k \in DOMAIN d \cup {key} |-> IF k = key THEN value ELSE d[k]]

\* Mutant of WriteAt0: the digest is appended to the file instead of overwriting it.
WriteAt0_append(content, data) == content \o data

\* fp.seek(0); fp.write(data) on a file opened "r+b": overwrite in place, no truncation.
WriteAt0(content, data) ==
    [k \in 1..(IF Len(content) > Len(data) THEN Len(content) ELSE Len(data)) |->
        IF k <= Len(data) THEN data[k] ELSE content[k]]

SyncerIdle == [pc |-> "idle", tree_hash |-> <<>>, data |-> <<>>, pushed |-> <<>>,
               response |-> None, npush |-> 0, nwrite |-> 0, clean |-> TRUE,
               error |-> "none"]

FinderIdle == [pc |-> "idle", guild |-> NoGuild,
               check_global |-> FALSE, _command |-> None, result |-> None,
               response |-> None, fetched |-> <<>>, seen |-> "n/a"]

\* No interaction is being handled. An interaction records whether the command
\* deferred it, how many messages the command sent, every message sent for it, the
\* error the command raised and the calls of the default handler.
ItxIdle == [pc |-> "idle", is_done |-> FALSE, deferred |-> FALSE, replies |-> 0,
            sent |-> <<>>, error |-> None, super_on_error |-> 0]

\* A fresh process on a fresh installation: resolve_path_with_links has created an
\* empty hash file, nothing is registered remotely, nothing is cached.
Init ==
    /\ tree \in {Trees[t] : t \in 1..Len(Trees)}
    /\ fallback_to_global \in BOOLEAN
    /\ application_commands = <<>>
    /\ file = <<>>
    /\ remote = [s \in Scopes |-> <<>>]
    /\ syncer = [i \in Invocations |-> SyncerIdle]
    /\ finder = [f \in Finders |-> FinderIdle]
    /\ interrupted = None
    /\ last_synced = None
    /\ digests = <<>>
    /\ itx = ItxIdle

(***************************************************************************)
(* VersionableTree.sync / fetch_commands called on their own.             *)
(***************************************************************************)
\* Mutant of Sync: every push also records the tree's digest in the hash file.
Sync_writes_hash(guild) ==
    LET ret == RecordsFor(GetAllCommands(tree, guild), guild)
    IN  /\ remote' = [remote EXCEPT ![guild] = ret]
        /\ application_commands' = DictSet(application_commands, guild, ret)
        /\ file' = WriteAt0(file, get_hash(tree))
        /\ UNCHANGED <<digests, itx, tree, fallback_to_global, syncer, finder, interrupted, last_synced>>

\* sync(guild=...): bulk upsert, then cache the returned list under the scope key.
Sync(guild) ==
    LET ret == RecordsFor(GetAllCommands(tree, guild), guild)
    IN  /\ remote' = [remote EXCEPT ![guild] = ret]
        /\ application_commands' = DictSet(application_commands, guild, ret)
        /\ UNCHANGED <<digests, itx, tree, fallback_to_global, file, syncer, finder, interrupted, last_synced>>

\* fetch_commands(guild=...): list the scope, then cache the list under the scope key.
FetchCommands(guild) ==
    LET ret == remote[guild]
    IN  /\ application_commands' = DictSet(application_commands, guild, ret)
        /\ UNCHANGED <<digests, itx, tree, fallback_to_global, file, remote, syncer, finder,
                       interrupted, last_synced>>

(***************************************************************************)
(* sync_if_commands_updated.                                               *)
(***************************************************************************)
\* Mutant of DigestChanged: the tree is pushed whatever the file holds.
DigestChanged_always(data, tree_hash) == TRUE

\* Line 147: data != tree_hash
DigestChanged(data, tree_hash) == data # tree_hash

\* Mutant of SyncCall: the digest is written as soon as it is found to differ,
\* before the push is awaited.
SyncCall_writes_first(i) ==
    /\ syncer[i].pc = "idle"
    /\ LET tree_hash == get_hash(tree)
           data == file
       IN  IF DigestChanged(data, tree_hash)
           THEN /\ syncer' = [syncer EXCEPT ![i] =
                      [SyncerIdle EXCEPT !.pc = "pushing", !.tree_hash = tree_hash,
                                         !.data = data, !.npush = @ + 1, !.nwrite = @ + 1,
                                         !.pushed = GetAllCommands(tree, NoGuild)]]
                /\ file' = WriteAt0(file, tree_hash)
                /\ UNCHANGED last_synced
           ELSE /\ syncer' = [syncer EXCEPT ![i] =
                      [SyncerIdle EXCEPT !.pc = "done", !.tree_hash = tree_hash,
                                         !.data = data]]
                /\ file' = file
                /\ last_synced' = Some(tree_hash)
    /\ UNCHANGED <<digests, itx, tree, fallback_to_global, application_commands, remote,
                   finder, interrupted>>

\* Lines 142-149: hash the tree, read the file, compare; start the push if they differ.
SyncCall(i) ==
    /\ syncer[i].pc = "idle"
    /\ LET tree_hash == get_hash(tree)
           data == file
       IN  IF DigestChanged(data, tree_hash)
           THEN /\ syncer' = [syncer EXCEPT ![i] =
                      [SyncerIdle EXCEPT !.pc = "pushing", !.tree_hash = tree_hash,
                                         !.data = data, !.npush = @ + 1,
                                         !.pushed = GetAllCommands(tree, NoGuild)]]
                /\ UNCHANGED last_synced
           ELSE /\ syncer' = [syncer EXCEPT ![i] =
                      [SyncerIdle EXCEPT !.pc = "done", !.tree_hash = tree_hash,
                                         !.data = data]]
                /\ last_synced' = Some(tree_hash)
    /\ UNCHANGED <<digests, itx, tree, fallback_to_global, application_commands, file, remote,
                   finder, interrupted>>

\* The registry serves the bulk upsert of line 51: the global scope is replaced.
RegistryUpsert(i) ==
    /\ syncer[i].pc = "pushing"
    /\ IsNone(syncer[i].response)
    /\ LET ret == RecordsFor(syncer[i].pushed, NoGuild)
       IN  /\ remote' = [remote EXCEPT ![NoGuild] = ret]
           /\ syncer' = [syncer EXCEPT ![i].response = Some(ret)]
    /\ UNCHANGED <<digests, itx, tree, fallback_to_global, application_commands, file, finder,
                   interrupted, last_synced>>

\* Mutant of SyncPushOk: the list the push returned is not cached.
SyncPushOk_no_cache(i) ==
    /\ syncer[i].pc = "pushing"
    /\ ~IsNone(syncer[i].response)
    /\ file' = WriteAt0(file, syncer[i].tree_hash)
    /\ syncer' = [j \in Invocations |->
                    IF j = i THEN [syncer[i] EXCEPT !.pc = "done", !.nwrite = @ + 1]
                    ELSE IF syncer[j].pc = "idle" THEN syncer[j]
                    ELSE [syncer[j] EXCEPT !.clean = FALSE]]
    /\ interrupted' = None
    /\ last_synced' = Some(syncer[i].tree_hash)
    /\ UNCHANGED <<digests, itx, tree, fallback_to_global, application_commands, remote, finder>>

\* Lines 149-151: the push returned; sync() caches its result, then the digest is written.
SyncPushOk(i) ==
    /\ syncer[i].pc = "pushing"
    /\ ~IsNone(syncer[i].response)
    /\ application_commands' = DictSet(application_commands, NoGuild, Val(syncer[i].response))
    /\ file' = WriteAt0(file, syncer[i].tree_hash)
    /\ syncer' = [j \in Invocations |->
                    IF j = i THEN [syncer[i] EXCEPT !.pc = "done", !.nwrite = @ + 1]
                    ELSE IF syncer[j].pc = "idle" THEN syncer[j]
                    ELSE [syncer[j] EXCEPT !.clean = FALSE]]
    /\ interrupted' = None
    /\ last_synced' = Some(syncer[i].tree_hash)
    /\ UNCHANGED <<digests, itx, tree, fallback_to_global, remote, finder>>

\* Mutant of SyncPushFail: a failed push invalidates the global cache entry.
SyncPushFail_invalidates(i) ==
    /\ syncer[i].pc = "pushing"
    /\ syncer' = [syncer EXCEPT ![i].pc = "failed", ![i].response = None,
                                ![i].error = "HTTPException"]
    /\ application_commands' =
          [s \in DOMAIN application_commands \ {NoGuild} |-> application_commands[s]]
    /\ interrupted' = IF syncer[i].clean
                      THEN Some([tree_hash |-> syncer[i].tree_hash, data |-> syncer[i].data])
                      ELSE interrupted
    /\ UNCHANGED <<digests, itx, tree, fallback_to_global, file, remote,
                   finder, last_synced>>

\* Mutant of SyncPushFail: the digest is written on the way out of the with block
\* even though the push raised.
SyncPushFail_writes(i) ==
    /\ syncer[i].pc = "pushing"
    /\ syncer' = [syncer EXCEPT ![i].pc = "failed", ![i].response = None,
                                ![i].error = "HTTPException", ![i].nwrite = @ + 1]
    /\ file' = WriteAt0(file, syncer[i].tree_hash)
    /\ interrupted' = interrupted
    /\ UNCHANGED <<digests, itx, tree, fallback_to_global, application_commands, remote,
                   finder, last_synced>>

\* Line 149 raises (the request was refused, or the connection was lost before or
\* after the registry served it): the exception leaves the with block, closing the
\* file unwritten.
SyncPushFail(i) ==
    /\ syncer[i].pc = "pushing"
    /\ syncer' = [syncer EXCEPT ![i].pc = "failed", ![i].response = None,
                                ![i].error = "HTTPException"]
    /\ interrupted' = IF syncer[i].clean
                      THEN Some([tree_hash |-> syncer[i].tree_hash, data |-> syncer[i].data])
                      ELSE interrupted
    /\ UNCHANGED <<digests, itx, tree, fallback_to_global, application_commands, file, remote,
                   finder, last_synced>>

\* Mutant of SyncOpenFail: a hash file that cannot be opened counts as holding no
\* digest, and the tree is pushed.
SyncOpenFail_pushes(i) ==
    /\ syncer[i].pc = "idle"
    /\ syncer' = [syncer EXCEPT ![i] =
          [SyncerIdle EXCEPT !.pc = "pushing", !.tree_hash = get_hash(tree),
                             !.npush = @ + 1, !.pushed = GetAllCommands(tree, NoGuild)]]
    /\ UNCHANGED <<digests, itx, tree, fallback_to_global, application_commands, file,
                   remote, finder, interrupted, last_synced>>

\* Lines 145-146: tree_hash_path.open("r+b") or fp.read() raises OSError (storage
\* unavailable, permission denied); the exception leaves sync_if_commands_updated
\* before the digests are compared.
SyncOpenFail(i) ==
    /\ syncer[i].pc = "idle"
    /\ syncer' = [syncer EXCEPT ![i] =
          [SyncerIdle EXCEPT !.pc = "failed", !.tree_hash = get_hash(tree),
                             !.error = "OSError"]]
    /\ UNCHANGED <<digests, itx, tree, fallback_to_global, application_commands, file,
                   remote, finder, interrupted, last_synced>>

\* Mutant of SyncWriteFail: the error of the write is swallowed and the invocation
\* returns normally.
SyncWriteFail_swallowed(i) ==
    /\ syncer[i].pc = "pushing"
    /\ ~IsNone(syncer[i].response)
    /\ application_commands' = DictSet(application_commands, NoGuild, Val(syncer[i].response))
    /\ syncer' = [syncer EXCEPT ![i].pc = "done"]
    /\ UNCHANGED <<digests, itx, tree, fallback_to_global, file, remote, finder,
                   interrupted, last_synced>>

\* Lines 149-151: the push returned and sync() cached its result, then the write of
\* the 8 bytes raises OSError (at fp.write or when the with block flushes and closes
\* the file): nothing is stored and the exception leaves sync_if_commands_updated.
SyncWriteFail(i) ==
    /\ syncer[i].pc = "pushing"
    /\ ~IsNone(syncer[i].response)
    /\ application_commands' = DictSet(application_commands, NoGuild, Val(syncer[i].response))
    /\ syncer' = [syncer EXCEPT ![i].pc = "failed", ![i].error = "OSError"]
    /\ interrupted' = IF syncer[i].clean
                      THEN Some([tree_hash |-> syncer[i].tree_hash, data |-> syncer[i].data])
                      ELSE interrupted
    /\ UNCHANGED <<digests, itx, tree, fallback_to_global, file, remote, finder,
                   last_synced>>

\* The caller (setup_hook) gets the result or the exception.
SyncReturn(i) ==
    /\ syncer[i].pc \in {"done", "failed"}
    /\ syncer' = [syncer EXCEPT ![i] = SyncerIdle]
    /\ UNCHANGED <<digests, itx, tree, fallback_to_global, application_commands, file, remote,
                   finder, interrupted, last_synced>>

(***************************************************************************)
(* find_mention_for.                                                       *)
(***************************************************************************)
\* Mutant of TargetName: records are matched by the command's own name.
TargetName_own(c) == c.name

\* (_command.root_parent or _command).name
TargetName(c) == IF IsNone(c.root_parent) THEN c.name ELSE Val(c.root_parent)

\* discord.utils.get(commands, name=(_command.root_parent or _command).name)
FindAppCommand(commands, c) == utils_get_name(commands, TargetName(c))

\* f"</{_command.qualified_name}:{app_command_found.id}>"
Mention(c, app_command) == <<"</", c.qualified_name, ":", app_command.id, ">">>

\* Mutant of ResolveCommand: the global declarations are searched before the guild's.
ResolveCommand_global_first(str, obj, guild, check_global) ==
    IF IsNone(obj)
    THEN LET _command == utils_get_qualified_name(walk_commands(tree, NoGuild), str)
         IN  IF check_global /\ ~IsNone(_command)
             THEN _command
             ELSE utils_get_qualified_name(walk_commands(tree, guild), str)
    ELSE obj

\* Lines 78-92: resolve the command given by name or by handle.
ResolveCommand(str, obj, guild, check_global) ==
    IF IsNone(obj)
    THEN LET _command == utils_get_qualified_name(walk_commands(tree, guild), str)
         IN  IF check_global /\ IsNone(_command)
             THEN utils_get_qualified_name(walk_commands(tree, NoGuild), str)
             ELSE _command
    ELSE obj

\* Lines 113-116: the mention of the record found, or None.
Finish(fr, app_command_found) ==
    [fr EXCEPT !.pc = "done",
               !.result = IF IsNone(app_command_found) THEN None
                          ELSE Some(Mention(Val(fr._command), Val(app_command_found)))]

\* Mutant of GlobalLookup: the global scope is fetched whether or not it is cached.
GlobalLookup_refetch(fr, app_command_found, cache) ==
    IF fr.check_global /\ IsNone(app_command_found)
    THEN [fr EXCEPT !.pc = "fetching_global", !.fetched = Append(@, NoGuild)]
    ELSE Finish(fr, app_command_found)

\* Lines 105-111: the global cache is searched when nothing was found in the guild's;
\* a missing global entry is fetched first.
GlobalLookup(fr, app_command_found, cache) ==
    IF fr.check_global /\ IsNone(app_command_found)
    THEN IF NoGuild \in DOMAIN cache
         THEN Finish(fr, FindAppCommand(cache[NoGuild], Val(fr._command)))
         ELSE [fr EXCEPT !.pc = "fetching_global", !.fetched = Append(@, NoGuild)]
    ELSE Finish(fr, app_command_found)

\* Mutant of LocalLookup: the guild's entry is never searched.
LocalLookup_global_only(fr, cache) == GlobalLookup(fr, None, cache)

\* Lines 94-103: the guild's cache entry is searched; a missing entry is fetched first.
LocalLookup(fr, cache) ==
    IF fr.guild # NoGuild
    THEN IF fr.guild \in DOMAIN cache
         THEN GlobalLookup(fr, FindAppCommand(cache[fr.guild], Val(fr._command)), cache)
         ELSE [fr EXCEPT !.pc = "fetching_local", !.fetched = Append(@, fr.guild)]
    ELSE GlobalLookup(fr, None, cache)

\* History, for the properties: what the registry and the cache held for the guild
\* asked for when the call was made.
SeenAtCall(_command, guild) ==
    IF IsNone(_command) \/ guild = NoGuild THEN "n/a"
    ELSE IF IsNone(FindAppCommand(remote[guild], Val(_command))) THEN "unregistered"
    ELSE IF guild \notin DOMAIN application_commands THEN "cold"
    ELSE IF IsNone(FindAppCommand(application_commands[guild], Val(_command))) THEN "stale"
    ELSE "listed"

\* The commands a caller may hold a handle to.
Handles == {w \in UNION {{walk_commands(tree, g)[k] : k \in 1..Len(walk_commands(tree, g))} :
                         g \in Scopes} : TRUE}

\* The qualified names a caller may ask for.
QualifiedNames == {<<"play">>, <<"queue", "add">>, <<"add">>}

\* Mutant of CheckGlobal: the global scope is considered only when fallback is on.
CheckGlobal_fallback_only(guild) == fallback_to_global = TRUE

\* Line 78: check_global = (self.fallback_to_global is True) or (guild is not None)
CheckGlobal(guild) == (fallback_to_global = TRUE) \/ (guild # NoGuild)

\* Lines 78-103: the call, up to its first await or its return; `command` is either
\* a qualified name (str, with obj None) or a command object (obj).
FindCall(f, str, obj, guild) ==
    /\ finder[f].pc = "idle"
    /\ LET check_global == CheckGlobal(guild)
           _command == ResolveCommand(str, obj, guild, check_global)
           fr == [FinderIdle EXCEPT !.guild = guild, !.check_global = check_global,
                                    !._command = _command,
                                    !.seen = SeenAtCall(_command, guild)]
       IN  finder' = [finder EXCEPT ![f] =
                        IF IsNone(_command) THEN [fr EXCEPT !.pc = "done"]
                        ELSE LocalLookup(fr, application_commands)]
    /\ UNCHANGED <<digests, itx, tree, fallback_to_global, application_commands, file, remote,
                   syncer, interrupted, last_synced>>

\* The registry serves the listing of line 56 for the scope the finder asked for.
RegistryList(f) ==
    /\ finder[f].pc \in {"fetching_local", "fetching_global"}
    /\ IsNone(finder[f].response)
    /\ LET scope == IF finder[f].pc = "fetching_local" THEN finder[f].guild ELSE NoGuild
       IN  finder' = [finder EXCEPT ![f].response = Some(remote[scope])]
    /\ UNCHANGED <<digests, itx, tree, fallback_to_global, application_commands, file, remote,
                   syncer, interrupted, last_synced>>

\* Lines 98-100: fetch_commands(guild=guild) returned and cached its result.
FindFetchLocalOk(f) ==
    /\ finder[f].pc = "fetching_local"
    /\ ~IsNone(finder[f].response)
    /\ LET local_commands == Val(finder[f].response)
           fr == [finder[f] EXCEPT !.response = None]
           cache == DictSet(application_commands, finder[f].guild, local_commands)
       IN  /\ application_commands' = cache
           /\ finder' = [finder EXCEPT ![f] =
                  GlobalLookup(fr, FindAppCommand(local_commands, Val(fr._command)), cache)]
    /\ UNCHANGED <<digests, itx, tree, fallback_to_global, file, remote, syncer, interrupted, last_synced>>

\* Lines 109-111: fetch_commands() returned and cached its result.
FindFetchGlobalOk(f) ==
    /\ finder[f].pc = "fetching_global"
    /\ ~IsNone(finder[f].response)
    /\ LET global_commands == Val(finder[f].response)
       IN  /\ application_commands' = DictSet(application_commands, NoGuild, global_commands)
           /\ finder' = [finder EXCEPT ![f] =
                  Finish([finder[f] EXCEPT !.response = None],
                         FindAppCommand(global_commands, Val(finder[f]._command)))]
    /\ UNCHANGED <<digests, itx, tree, fallback_to_global, file, remote, syncer, interrupted, last_synced>>

\* Mutant of FindFetchFail: the failure is swallowed; the scope is cached as empty
\* and the call returns None.
FindFetchFail_swallowed(f) ==
    /\ finder[f].pc \in {"fetching_local", "fetching_global"}
    /\ finder' = [finder EXCEPT ![f].pc = "done", ![f].response = None]
    /\ application_commands' =
          DictSet(application_commands, finder[f].fetched[Len(finder[f].fetched)], <<>>)
    /\ UNCHANGED <<digests, itx, tree, fallback_to_global, file, remote,
                   syncer, interrupted, last_synced>>

\* Lines 98, 109: fetch_commands raises; the exception leaves find_mention_for.
FindFetchFail(f) ==
    /\ finder[f].pc \in {"fetching_local", "fetching_global"}
    /\ finder' = [finder EXCEPT ![f].pc = "failed", ![f].response = None]
    /\ UNCHANGED <<digests, itx, tree, fallback_to_global, application_commands, file, remote,
                   syncer, interrupted, last_synced>>

\* The caller gets the mention, None or the exception.
FindReturn(f) ==
    /\ finder[f].pc \in {"done", "failed"}
    /\ finder' = [finder EXCEPT ![f] = FinderIdle]
    /\ UNCHANGED <<digests, itx, tree, fallback_to_global, application_commands, file, remote,
                   syncer, interrupted, last_synced>>

(***************************************************************************)
(* The process ends (shutdown or crash) and a build starts: the tree and   *)
(* the cache are rebuilt, the hash file and the registry stay.             *)
(***************************************************************************)
Restart ==
    /\ tree' \in {Trees[t] : t \in 1..Len(Trees)}
    /\ fallback_to_global' \in BOOLEAN
    /\ application_commands' = <<>>
    /\ syncer' = [i \in Invocations |-> SyncerIdle]
    /\ finder' = [f \in Finders |-> FinderIdle]
    /\ interrupted' =
         IF \E i \in Invocations : syncer[i].pc = "pushing" /\ syncer[i].clean
         THEN LET i == CHOOSE j \in Invocations : syncer[j].pc = "pushing" /\ syncer[j].clean
              IN  Some([tree_hash |-> syncer[i].tree_hash, data |-> syncer[i].data])
         ELSE interrupted
    /\ UNCHANGED <<digests, itx, file, remote, last_synced>>

(***************************************************************************)
(* get_hash called on the trees of different builds.                       *)
(***************************************************************************)
Range(s) == {s[k] : k \in 1..Len(s)}

Names == {"add", "play", "queue"}
Texts == {"t1", "t2"}

\* Command names are unique within a scope.
UniqueNames(t) ==
    \A j, k \in 1..Len(t) : (j # k /\ t[j].guild = t[k].guild) => t[j].name # t[k].name

\* The same commands added to the tree in another order.
Reorderings(t) == {[k \in 1..Len(t) |-> t[p[k]]] : p \in Permutations(1..Len(t))}

\* The trees that differ from t in the name or the text of exactly one declared
\* command, a top-level command of any scope or a subcommand.
Variations(t) ==
    LET groups == {k \in 1..Len(t) : Len(t[k].children) > 0}
        changed ==
            {[t EXCEPT ![k].name = n] : k \in 1..Len(t), n \in Names}
            \cup {[t EXCEPT ![k].text = x] : k \in 1..Len(t), x \in Texts}
            \cup {[t EXCEPT ![k].children[1].name = n] : k \in groups, n \in Names}
            \cup {[t EXCEPT ![k].children[1].text = x] : k \in groups, x \in Texts}
    IN  {v \in changed : v # t /\ UniqueNames(v)}

\* The command sets of the builds get_hash is compared over.
DeclaredSets == Reorderings(Trees[1]) \cup Variations(Trees[1])

\* Line 142: tree_hash = await self.get_hash(), recorded with the tree it was taken of.
GetHash ==
    /\ Len(digests) < MaxDigests
    /\ digests' = Append(digests, [tree |-> tree, hash |-> get_hash(tree)])
    /\ UNCHANGED <<itx, tree, fallback_to_global, application_commands, file, remote,
                   syncer, finder, interrupted, last_synced>>

\* Another build starts: its command modules add their commands to a new tree.
Redeclare ==
    /\ tree' \in DeclaredSets
    /\ UNCHANGED <<digests, itx, fallback_to_global, application_commands, file, remote,
                   syncer, finder, interrupted, last_synced>>

InitHash ==
    /\ tree \in DeclaredSets
    /\ fallback_to_global = TRUE
    /\ application_commands = <<>>
    /\ file = <<>>
    /\ remote = [s \in Scopes |-> <<>>]
    /\ syncer = [i \in Invocations |-> SyncerIdle]
    /\ finder = [f \in Finders |-> FinderIdle]
    /\ interrupted = None
    /\ last_synced = None
    /\ digests = <<>>
    /\ itx = ItxIdle

NextHash == GetHash \/ Redeclare

\* get_hash over the trees of successive builds.
SpecHash == InitHash /\ [][NextHash]_vars

(***************************************************************************)
(* on_error: the tree's error handler, called by the dispatch of an        *)
(* interaction whose command raised.                                       *)
(***************************************************************************)
\* The errors a command can raise: MusicBotError with its message, or another
\* AppCommandError.
Errors ==
    {[type |-> t, message |-> m] :
        t \in {"MusicBotError", "CommandInvokeError", "CheckFailure"}, m \in {"m1", "m2"}}

\* Mutant of IsMusicBotError: every AppCommandError is reported to the user.
IsMusicBotError_any(error) == error.type \in {"MusicBotError", "CommandInvokeError", "CheckFailure"}

\* Line 42: isinstance(error, MusicBotError)
IsMusicBotError(error) == error.type = "MusicBotError"

\* Everything but the interaction.
NotItx == <<tree, fallback_to_global, application_commands, file, remote,
            syncer, finder, interrupted, last_synced, digests>>

\* An interaction arrives and its command starts.
Dispatch ==
    /\ itx.pc = "idle"
    /\ itx' = [ItxIdle EXCEPT !.pc = "running"]
    /\ UNCHANGED NotItx

\* The command defers the interaction: the response is done, nothing is shown yet.
Defer ==
    /\ itx.pc = "running" /\ ~itx.is_done
    /\ itx' = [itx EXCEPT !.is_done = TRUE, !.deferred = TRUE]
    /\ UNCHANGED NotItx

\* The command sends a message: the initial response, or a follow-up once the
\* response is done.
Reply ==
    /\ itx.pc = "running" /\ itx.replies < MaxReplies
    /\ itx' = [itx EXCEPT !.is_done = TRUE, !.replies = @ + 1,
                           !.sent = Append(@, [via |-> IF itx.is_done THEN "followup"
                                                                     ELSE "response",
                                               content |-> "ok"])]
    /\ UNCHANGED NotItx

\* The command raises; the dispatch will call tree.on_error(itx, error).
Raise(error) ==
    /\ itx.pc = "running"
    /\ itx' = [itx EXCEPT !.pc = "raised", !.error = Some(error)]
    /\ UNCHANGED NotItx

\* Lines 41-48, up to the await of the branch taken.
OnErrorCall ==
    /\ itx.pc = "raised"
    /\ itx' = [itx EXCEPT !.pc =
                  IF IsMusicBotError(Val(itx.error))
                  THEN (IF ~itx.is_done THEN "send_message" ELSE "followup_send")
                  ELSE "super_on_error"]
    /\ UNCHANGED NotItx

\* Line 44: await itx.response.send_message(error.message)
OnErrorSendMessage ==
    /\ itx.pc = "send_message"
    /\ itx' = [itx EXCEPT !.pc = "handled", !.is_done = TRUE,
                           !.sent = Append(@, [via |-> "response",
                                               content |-> Val(itx.error).message])]
    /\ UNCHANGED NotItx

\* Line 46: await itx.followup.send(error.message)
OnErrorFollowupSend ==
    /\ itx.pc = "followup_send"
    /\ itx' = [itx EXCEPT !.pc = "handled",
                           !.sent = Append(@, [via |-> "followup",
                                               content |-> Val(itx.error).message])]
    /\ UNCHANGED NotItx

\* Line 48: await super().on_error(itx, error), the library's handler, which logs the
\* error and sends nothing.
SuperOnError ==
    /\ itx.pc = "super_on_error"
    /\ itx' = [itx EXCEPT !.pc = "handled", !.super_on_error = @ + 1]
    /\ UNCHANGED NotItx

\* on_error has returned; the interaction is over.
ItxOver ==
    /\ itx.pc = "handled"
    /\ itx' = ItxIdle
    /\ UNCHANGED NotItx

NextError ==
    \/ Dispatch
    \/ Defer
    \/ Reply
    \/ \E error \in Errors : Raise(error)
    \/ OnErrorCall
    \/ OnErrorSendMessage
    \/ OnErrorFollowupSend
    \/ SuperOnError
    \/ ItxOver

\* The dispatch of interactions whose command raises.
SpecError == Init /\ [][NextError]_vars

\* sync and fetch_commands called on their own, and the process restarting.
NextTree ==
    \/ \E g \in Scopes : Sync(g)
    \/ \E g \in Scopes : FetchCommands(g)
    \/ Restart

\* The steps of sync_if_commands_updated.
NextSyncer ==
    \/ \E i \in Syncers : SyncCall(i)
    \/ \E i \in Syncers : RegistryUpsert(i)
    \/ \E i \in Syncers : SyncPushOk(i)
    \/ \E i \in Syncers : SyncPushFail(i)
    \/ \E i \in Syncers : SyncReturn(i)

\* The steps of find_mention_for.
NextFinder ==
    \/ \E f \in Finders, str \in QualifiedNames, g \in Scopes : FindCall(f, str, None, g)
    \/ \E f \in Finders, w \in Handles, g \in Scopes : FindCall(f, <<>>, Some(w), g)
    \/ \E f \in Finders : RegistryList(f)
    \/ \E f \in Finders : FindFetchLocalOk(f)
    \/ \E f \in Finders : FindFetchGlobalOk(f)
    \/ \E f \in Finders : FindFetchFail(f)
    \/ \E f \in Finders : FindReturn(f)

\* The steps of sync_if_commands_updated when setup may be run again while an earlier
\* invocation is suspended at its push.
NextReentrant ==
    \/ \E i \in Invocations : SyncCall(i)
    \/ \E i \in Invocations : RegistryUpsert(i)
    \/ \E i \in Invocations : SyncPushOk(i)
    \/ \E i \in Invocations : SyncPushFail(i)
    \/ \E i \in Invocations : SyncReturn(i)

\* The steps of sync_if_commands_updated that the hash file's storage makes fail.
NextStorage ==
    \/ \E i \in Syncers : SyncOpenFail(i)
    \/ \E i \in Syncers : SyncWriteFail(i)

Next == NextTree \/ NextSyncer \/ NextFinder

\* The whole program.
Spec == Init /\ [][Next]_vars

\* The program while nothing resolves mentions: find_mention_for reads and writes
\* neither the hash file nor a syncer's locals.
SpecSync == Init /\ [][NextTree \/ NextSyncer]_vars

\* The program while nothing resolves mentions and setup may be run again before the
\* earlier invocation of sync_if_commands_updated has returned.
SpecReentrant == Init /\ [][NextTree \/ NextReentrant]_vars

\* The program while nothing resolves mentions and the storage of the hash file may
\* fail.
SpecStorage == Init /\ [][NextTree \/ NextSyncer \/ NextStorage]_vars

\* The program while sync_if_commands_updated does not run (as after setup_hook).
SpecFind == Init /\ [][NextTree \/ NextFinder]_vars

(***************************************************************************)
(* Properties of sync_if_commands_updated.                                 *)
(***************************************************************************)
\* Steps of invocation i, told by its position.
SyncCalled(i) == syncer[i].pc = "idle" /\ syncer'[i].pc # "idle"
SyncWrote(i) == syncer[i].pc = "pushing" /\ syncer'[i].pc = "done"
SyncCutShort(i) == syncer[i].pc = "pushing" /\ syncer'[i].pc \in {"failed", "idle"}

\* C1: an invocation that finds the persisted digest equal to the digest it computed
\* returns at once: it sends no push and no fetch, writes nothing to the hash file and
\* leaves the cache, the hash file and the registry as they were.
C1_SkipWhenDigestEqual ==
    /\ [](\A i \in Syncers :
            (syncer[i].pc # "idle" /\ syncer[i].data = syncer[i].tree_hash) =>
                /\ syncer[i].pc = "done"
                /\ syncer[i].npush = 0 /\ syncer[i].nwrite = 0
                /\ IsNone(syncer[i].response))
    /\ [][\A i \in Syncers :
            (SyncCalled(i) /\ file = get_hash(tree)) =>
                /\ syncer'[i].pc = "done"
                /\ syncer'[i].data = syncer'[i].tree_hash
                /\ syncer'[i].npush = 0 /\ syncer'[i].nwrite = 0
                /\ application_commands' = application_commands
                /\ file' = file
                /\ remote' = remote]_vars

\* C1 witness: an invocation has returned without pushing, the file holding the digest.
C1_Witness ==
    \E i \in Syncers :
        /\ syncer[i].pc = "done" /\ syncer[i].npush = 0
        /\ syncer[i].data = get_hash(tree) /\ file = get_hash(tree)

\* C2: an invocation that finds the persisted digest different sends exactly one
\* global push and writes at most once; the write happens in the step in which the
\* push returns, after the registry served it, and stores the digest computed by the
\* invocation; when the push raises or the process ends first, nothing is written.
C2_OnePushThenWrite ==
    /\ [](\A i \in Syncers :
            (syncer[i].pc # "idle" /\ syncer[i].data # syncer[i].tree_hash) =>
                /\ syncer[i].npush = 1
                /\ syncer[i].nwrite = (IF syncer[i].pc = "done" THEN 1 ELSE 0))
    /\ [][\A i \in Syncers :
            /\ (SyncCalled(i) /\ file # get_hash(tree)) =>
                  /\ syncer'[i].pc = "pushing"
                  /\ syncer'[i].npush = 1 /\ syncer'[i].nwrite = 0
                  /\ file' = file
            /\ SyncWrote(i) =>
                  /\ ~IsNone(syncer[i].response)
                  /\ syncer[i].tree_hash = get_hash(tree)
                  /\ file' = syncer[i].tree_hash
            /\ SyncCutShort(i) => file' = file /\ syncer'[i].nwrite = 0]_vars

\* C2 witness: an invocation that read another digest has pushed and written its own.
C2_Witness ==
    \E i \in Syncers :
        /\ syncer[i].pc = "done" /\ syncer[i].npush = 1 /\ syncer[i].nwrite = 1
        /\ syncer[i].data # <<>> /\ syncer[i].data # syncer[i].tree_hash
        /\ file = syncer[i].tree_hash

\* C3: the hash file changes only in the step in which an invocation's own global push
\* returns successfully, and what is written is the digest of the commands that
\* invocation pushed; sync, fetch_commands and find_mention_for never change it.
C3_DigestOnlyAfterOwnPush ==
    [][/\ file' # file =>
            \E i \in Syncers :
                /\ SyncWrote(i)
                /\ ~IsNone(syncer[i].response)
                /\ Val(syncer[i].response) = RecordsFor(syncer[i].pushed, NoGuild)
                /\ application_commands'[NoGuild] = Val(syncer[i].response)
                /\ file' = xxh3_64_digest(Payload(sorted(syncer[i].pushed), 1), Seed)
       /\ (\E g \in Scopes : Sync(g) \/ FetchCommands(g)) => file' = file
       /\ finder' # finder => file' = file]_vars

\* C3 witness: the digest was written by an invocation while a mention was being resolved.
C3_Witness ==
    /\ \E i \in Syncers : syncer[i].pc = "done" /\ syncer[i].nwrite = 1 /\ file = syncer[i].tree_hash
    /\ \E f \in Finders : finder[f].pc = "done"
    /\ DOMAIN application_commands = Scopes

\* C4: an invocation cut short at its push (the push raised, or the process ended)
\* has not touched the hash file: the file still holds what the invocation read, which
\* is not the digest it computed, and the next invocation over the same commands
\* pushes again instead of skipping.
C4_InterruptedSyncRetries ==
    /\ [](~IsNone(interrupted) =>
            /\ file = Val(interrupted).data
            /\ file # Val(interrupted).tree_hash)
    /\ [][\A i \in Syncers :
            /\ SyncCutShort(i) => file' = file
            /\ (SyncCalled(i) /\ ~IsNone(interrupted)
                    /\ get_hash(tree) = Val(interrupted).tree_hash) =>
                  syncer'[i].pc = "pushing" /\ syncer'[i].npush = 1]_vars

\* C4 witness: after an interrupted invocation, a later one is pushing the same commands.
C4_Witness ==
    /\ ~IsNone(interrupted)
    /\ \E i \in Syncers :
        /\ syncer[i].pc = "pushing" /\ ~IsNone(syncer[i].response)
        /\ syncer[i].tree_hash = Val(interrupted).tree_hash
        /\ syncer[i].data = Val(interrupted).data

\* C5: once an invocation has completed, the hash file holds exactly the digest it
\* computed (whatever the file held before), and a further invocation over the same
\* commands reads that digest, pushes nothing and leaves the file as it is.
C5_SyncIdempotent ==
    /\ [](~IsNone(last_synced) => file = Val(last_synced) /\ Len(file) = DigestSize)
    /\ [][\A i \in Syncers :
            (SyncCalled(i) /\ last_synced = Some(get_hash(tree))) =>
                /\ syncer'[i].pc = "done"
                /\ syncer'[i].data = get_hash(tree)
                /\ syncer'[i].npush = 0
                /\ file' = get_hash(tree)]_vars

\* C5 witness: after a push and a restart, a further invocation skipped.
C5_Witness ==
    \E i \in Syncers :
        /\ syncer[i].pc = "done" /\ syncer[i].npush = 0
        /\ last_synced = Some(syncer[i].tree_hash)
        /\ remote[NoGuild] # <<>>
        /\ DOMAIN application_commands = {}

(***************************************************************************)
(* Properties of find_mention_for.                                         *)
(***************************************************************************)
\* Steps of call f, told by its position.
FindCalled(f) == finder[f].pc = "idle" /\ finder'[f].pc # "idle"
FindReturned(f) == finder[f].pc # "done" /\ finder'[f].pc = "done"

\* The tree declares a command of that qualified name for the scope.
Declares(guild, qn) ==
    \E k \in 1..Len(walk_commands(tree, guild)) :
        walk_commands(tree, guild)[k].qualified_name = qn

DeclaredOnlyIn(guild, qn) ==
    /\ Declares(guild, qn)
    /\ \A s \in Scopes \ {guild} : ~Declares(s, qn)

\* The identifiers of the records of a list that carry the name.
IdsOf(records, name) == {records[k].id : k \in {j \in 1..Len(records) : records[j].name = name}}

\* A call by name for a command declared only in guild A returned.
ReturnedOnlyIn(f, A) ==
    /\ FindReturned(f)
    /\ finder'[f].guild = A
    /\ ~IsNone(finder'[f]._command)
    /\ DeclaredOnlyIn(A, Val(finder'[f]._command).qualified_name)

\* A call by name in scope B, fallback disabled, for a command declared only in
\* another guild returns None at once, awaiting nothing and raising nothing.
AbsentElsewhere(f) ==
    \A str \in QualifiedNames, A \in Guilds, B \in Scopes :
        (B # A /\ FindCall(f, str, None, B) /\ DeclaredOnlyIn(A, str)
              /\ ~fallback_to_global) =>
            /\ finder'[f].pc = "done"
            /\ IsNone(finder'[f].result)
            /\ finder'[f].fetched = <<>>

\* C6 as claimed: whenever the registry holds the command under A at the call, the
\* call for (name, A) returns the mention; the call for (name, B) returns None.
C6_Original ==
    [][\A f \in Finders :
        /\ \A A \in Guilds :
             (ReturnedOnlyIn(f, A) /\ finder'[f].seen \in {"cold", "listed", "stale"}) =>
                finder'[f].result =
                    Some(Mention(Val(finder'[f]._command),
                                 [id |-> RemoteId(A, Val(finder'[f]._command).name)]))
        /\ AbsentElsewhere(f)]_vars

\* C6, amended: for a command declared only in guild A and registered remotely under
\* A, the call for (name, A) returns the mention provided A's cache entry, when there
\* is one at the call, lists the command's record (a cold entry is fetched); the call
\* for (name, B), B # A, fallback disabled, returns None without raising.
C6_ScopedResolution ==
    [][\A f \in Finders :
        /\ \A A \in Guilds :
             (ReturnedOnlyIn(f, A) /\ finder'[f].seen \in {"cold", "listed"}) =>
                finder'[f].result =
                    Some(Mention(Val(finder'[f]._command),
                                 [id |-> RemoteId(A, Val(finder'[f]._command).name)]))
        /\ AbsentElsewhere(f)]_vars

\* C6 witness: a call for a command declared only in A, whose entry was cold, returned
\* the mention carrying A's record.
C6_Witness ==
    \E f \in Finders :
        /\ finder[f].pc = "done" /\ finder[f].guild = "A" /\ finder[f].seen = "cold"
        /\ ~IsNone(finder[f]._command)
        /\ DeclaredOnlyIn("A", Val(finder[f]._command).qualified_name)
        /\ finder[f].fetched = <<"A">>
        /\ finder[f].result = Some(<<"</", <<"add">>, ":", RemoteId("A", "add"), ">">>)

\* C7 as claimed: a call without a guild for a globally declared command fetches the
\* global entry when it is cold and returns the mention when the global entry holds a
\* record of the target name, with fallback_to_global on or off.
C7_NoScopeUsesGlobal ==
    [][\A f \in Finders :
        /\ (FindCalled(f) /\ finder'[f].guild = NoGuild /\ ~IsNone(finder'[f]._command)
                /\ NoGuild \notin DOMAIN application_commands) =>
              finder'[f].pc = "fetching_global"
        /\ (FindReturned(f) /\ finder'[f].guild = NoGuild /\ ~IsNone(finder'[f]._command)
                /\ NoGuild \in DOMAIN application_commands'
                /\ IdsOf(application_commands'[NoGuild],
                         Head(Val(finder'[f]._command).qualified_name)) # {}) =>
              ~IsNone(finder'[f].result)]_vars

\* The identifiers find_mention_for may return for command c from the cache: those of
\* the guild's records named after c's root when there are any, else those of the
\* global records of that name when the global scope is searched.
ExpectedIds(c, guild, check_global, cache) ==
    LET root == Head(c.qualified_name)
        local == IF guild # NoGuild /\ guild \in DOMAIN cache
                 THEN IdsOf(cache[guild], root) ELSE {}
        global == IF check_global /\ NoGuild \in DOMAIN cache
                  THEN IdsOf(cache[NoGuild], root) ELSE {}
    IN  IF local # {} THEN local ELSE global

\* The identifiers of the records named after c's root in the entries of the guild
\* and of the global scope.
CachedIds(c, guild, cache) ==
    UNION {IdsOf(cache[s], Head(c.qualified_name)) : s \in {guild, NoGuild} \cap DOMAIN cache}

\* C8: the record is matched by the name of the command's root (the first part of its
\* qualified name: the root parent's name for a child, its own name for a command
\* without parent), and the mention joins the command's full qualified name with
\* that record's identifier.
C8_MentionOfRootParent ==
    [][\A f \in Finders :
        /\ (FindReturned(f) /\ ~IsNone(finder'[f].result)) =>
              LET c == Val(finder'[f]._command)
                  m == Val(finder'[f].result)
              IN  /\ m[2] = c.qualified_name
                  /\ m = <<"</", c.qualified_name, ":", m[4], ">">>
                  /\ m[4] \in CachedIds(c, finder'[f].guild, application_commands')
        /\ (FindCalled(f) /\ FindReturned(f) /\ ~IsNone(finder'[f]._command)) =>
              (IsNone(finder'[f].result) <=>
                  ExpectedIds(Val(finder'[f]._command), finder'[f].guild,
                              finder'[f].check_global, application_commands) = {})]_vars

\* C8 witness: the mention of the child "queue add" carries the identifier of the
\* global record "queue" although the guild's entry holds a record named "add".
C8_Witness ==
    \E f \in Finders :
        /\ finder[f].pc = "done" /\ finder[f].guild = "A"
        /\ finder[f]._command = Some(Walked(<<"queue", "add">>, "add", Some("queue"), "t1"))
        /\ "A" \in DOMAIN application_commands
        /\ IdsOf(application_commands["A"], "add") # {}
        /\ finder[f].result =
              Some(<<"</", <<"queue", "add">>, ":", RemoteId(NoGuild, "queue"), ">">>)

\* A scope is fetched in the step that appends it to `fetched`.
Fetches(f, scope) ==
    /\ Len(finder'[f].fetched) = Len(finder[f].fetched) + 1
    /\ finder'[f].fetched[Len(finder'[f].fetched)] = scope

\* C9 as claimed: a call for a resolvable command against a scope without cache entry
\* fetches that scope, exactly once; a scope that has an entry is not fetched.
C9_LazyFetchOnce ==
    [][\A f \in Finders :
        /\ (FindCalled(f) /\ ~IsNone(finder'[f]._command)
                /\ finder'[f].guild \notin DOMAIN application_commands) =>
              finder'[f].fetched = <<finder'[f].guild>>
        /\ \A scope \in Scopes :
              Fetches(f, scope) =>
                 /\ scope \notin DOMAIN application_commands
                 /\ \A k \in 1..Len(finder[f].fetched) : finder[f].fetched[k] # scope]_vars

\* What holds of the code for C9: the claim, except for a call without a guild on a
\* tree built with fallback_to_global off.
C9_ExceptNoScopeWithoutFallback ==
    [][\A f \in Finders :
        /\ (FindCalled(f) /\ ~IsNone(finder'[f]._command)
                /\ finder'[f].guild \notin DOMAIN application_commands
                /\ (finder'[f].guild # NoGuild \/ fallback_to_global)) =>
              finder'[f].fetched = <<finder'[f].guild>>
        /\ \A scope \in Scopes :
              Fetches(f, scope) =>
                 /\ scope \notin DOMAIN application_commands
                 /\ \A k \in 1..Len(finder[f].fetched) : finder[f].fetched[k] # scope]_vars

\* A step of call f: its record changes while the process lives on.
FindStep(f) == finder'[f] # finder[f] /\ ~Restart

\* C10 as claimed: find_mention_for pushes nothing, leaves the hash file alone and
\* changes the cache only by adding an entry for the guild asked for or for the global
\* scope; an entry that exists is never replaced.
C10_Original ==
    [][\A f \in Finders :
        FindStep(f) =>
            /\ file' = file /\ remote' = remote /\ syncer' = syncer
            /\ \A s \in DOMAIN application_commands :
                  s \in DOMAIN application_commands'
                  /\ application_commands'[s] = application_commands[s]
            /\ DOMAIN application_commands' \ DOMAIN application_commands
                  \subseteq {finder[f].guild, NoGuild}]_vars

\* C10, amended: find_mention_for pushes nothing and leaves the hash file alone; it
\* fetches a scope only when it finds no cache entry for it, and the only cache change
\* it makes is to set the entry of the scope it fetched (the guild asked for, or the
\* global scope) to the list returned, which replaces an entry that another push or
\* fetch stored while its fetch was in flight.
C10_ResolverOnlyFetches ==
    [][\A f \in Finders :
        /\ FindStep(f) =>
            /\ file' = file /\ remote' = remote /\ syncer' = syncer
            /\ \A s \in DOMAIN application_commands : s \in DOMAIN application_commands'
            /\ \A s \in DOMAIN application_commands' :
                  (s \notin DOMAIN application_commands
                        \/ application_commands'[s] # application_commands[s]) =>
                     /\ ~IsNone(finder[f].response)
                     /\ application_commands'[s] = Val(finder[f].response)
                     /\ s = finder[f].fetched[Len(finder[f].fetched)]
                     /\ s \in {finder[f].guild, NoGuild}
        /\ \A scope \in Scopes :
              Fetches(f, scope) => scope \notin DOMAIN application_commands]_vars

\* C10 witness: a call that found both scopes cold has fetched and cached both.
C10_Witness ==
    \E f \in Finders :
        /\ finder[f].pc = "done" /\ finder[f].fetched = <<"A", NoGuild>>
        /\ {"A", NoGuild} \subseteq DOMAIN application_commands
        /\ IsNone(finder[f].result)
        /\ file = <<>>
(***************************************************************************)
(* Properties of the cache.                                                *)
(***************************************************************************)
\* The lists the registry can return for a scope: nothing registered yet, or the
\* records of the commands a build declares for it.
ResponsesOf(s) ==
    {<<>>} \cup {RecordsFor(GetAllCommands(Trees[t], s), s) : t \in 1..Len(Trees)}

\* The entry of scope s is set or changed by the step.
EntryChanges(s) ==
    /\ s \in DOMAIN application_commands'
    /\ (s \notin DOMAIN application_commands
            \/ application_commands'[s] # application_commands[s])

\* C11: a push or fetch that succeeds for scope s sets the entry of s to exactly the
\* list the registry returned and leaves every other entry as it was; whatever pushes
\* and fetches overlap, every entry is one complete list returned by the registry.
C11_WholeEntryReplacement ==
    /\ [](\A s \in DOMAIN application_commands :
            application_commands[s] \in ResponsesOf(s))
    /\ [][/\ \A g \in Scopes :
               /\ Sync(g) => application_commands'[g] = remote'[g]
               /\ FetchCommands(g) => application_commands'[g] = remote[g]
          /\ \A i \in Syncers :
               SyncWrote(i) => application_commands'[NoGuild] = Val(syncer[i].response)
          /\ \A s \in Scopes :
               EntryChanges(s) =>
                 /\ \/ Sync(s)
                    \/ FetchCommands(s)
                    \/ \E i \in Syncers :
                          /\ s = NoGuild /\ syncer[i].pc = "pushing"
                          /\ ~IsNone(syncer[i].response)
                          /\ application_commands'[s] = Val(syncer[i].response)
                    \/ \E f \in Finders :
                          /\ ~IsNone(finder[f].response)
                          /\ s = finder[f].fetched[Len(finder[f].fetched)]
                          /\ application_commands'[s] = Val(finder[f].response)
                 /\ \A t \in DOMAIN application_commands \ {s} :
                       /\ t \in DOMAIN application_commands'
                       /\ application_commands'[t] = application_commands[t]]_vars

\* C11 witness: a global push and a global fetch overlapped; the entry is the complete
\* (older) list the fetch returned, and guild A's entry, pushed before, is untouched.
C11_Witness ==
    /\ \E i \in Syncers : syncer[i].pc = "done" /\ syncer[i].nwrite = 1
    /\ \E f \in Finders : finder[f].pc = "done" /\ finder[f].fetched = <<NoGuild>>
    /\ {NoGuild, "A"} \subseteq DOMAIN application_commands
    /\ application_commands[NoGuild] = <<>> /\ remote[NoGuild] # <<>>
    /\ application_commands["A"] # <<>> /\ application_commands["A"] = remote["A"]

(***************************************************************************)
(* Properties of startup: setup_hook builds the tree and awaits            *)
(* sync_if_commands_updated; it has completed without error once that      *)
(* invocation has returned normally.                                       *)
(***************************************************************************)
\* C12 as claimed: once the startup invocation has returned without error, the global
\* scope has a cache entry.
C12_Original ==
    \A i \in Syncers :
        syncer[i].pc = "done" => NoGuild \in DOMAIN application_commands

\* C12, amended: once the startup invocation has returned without error, the global
\* scope has a cache entry if the invocation pushed; an invocation that found the
\* persisted digest equal has pushed and fetched nothing, and leaves the global scope
\* without entry when it had none (the resolver fetches it on first use).
C12_GlobalCachedIfPushed ==
    /\ [](\A i \in Syncers :
            (syncer[i].pc = "done" /\ syncer[i].npush = 1) =>
                /\ NoGuild \in DOMAIN application_commands
                /\ application_commands[NoGuild] # <<>>)
    /\ [][\A i \in Syncers :
            (SyncCalled(i) /\ syncer'[i].pc = "done") =>
                /\ syncer'[i].npush = 0
                /\ remote' = remote
                /\ DOMAIN application_commands' = DOMAIN application_commands]_vars

\* C12 witness: startup has completed without error, skipping the push, and the
\* global scope has no cache entry.
C12_Witness ==
    \E i \in Syncers :
        /\ syncer[i].pc = "done" /\ syncer[i].npush = 0
        /\ syncer[i].data = syncer[i].tree_hash
        /\ NoGuild \notin DOMAIN application_commands

(***************************************************************************)
(* Properties of overlapping invocations of sync_if_commands_updated.      *)
(***************************************************************************)
\* C13: when sync_if_commands_updated is invoked again while an earlier invocation is
\* suspended at its push, at most one global push of sync_if_commands_updated is in
\* flight at any time, and the hash file holds the digest of the commands of the push
\* that completed last.
C13_ReentrancyGuarded ==
    /\ Cardinality({i \in Invocations : syncer[i].pc = "pushing"}) <= 1
    /\ ~IsNone(last_synced) => file = Val(last_synced)

\* What holds of overlapping invocations: the hash file holds the digest last written.
C13_DigestOfLastCompleted == ~IsNone(last_synced) => file = Val(last_synced)

(***************************************************************************)
(* Properties of get_hash.                                                 *)
(***************************************************************************)
\* Tree tb is tree ta with the name or the text of exactly one declared command (or
\* of one of its subcommands) changed.
OneCommandChanged(ta, tb) ==
    \E c \in Range(ta), d \in Range(tb) :
        /\ c # d /\ c.guild = d.guild
        /\ Len(c.children) = Len(d.children)
        /\ Range(ta) \ {c} = Range(tb) \ {d}

\* C14: get_hash gives the same digest for the same declared commands, in whatever
\* order they were added to the tree, and a different digest as soon as the name or
\* the text of one declared command, of any scope, differs.
C14_DigestCoversDeclaredSet ==
    \A a, b \in 1..Len(digests) :
        /\ Range(digests[a].tree) = Range(digests[b].tree) =>
              digests[a].hash = digests[b].hash
        /\ OneCommandChanged(digests[a].tree, digests[b].tree) =>
              digests[a].hash # digests[b].hash

\* What holds of get_hash: two trees have the same digest exactly when they declare
\* the same global commands; the commands declared for a guild are not hashed.
C14_CoversGlobalCommands ==
    \A a, b \in 1..Len(digests) :
        /\ Len(digests[a].hash) = DigestSize
        /\ digests[a].hash = digests[b].hash <=>
              Range(GetAllCommands(digests[a].tree, NoGuild))
                  = Range(GetAllCommands(digests[b].tree, NoGuild))

(***************************************************************************)
(* Properties of the scopes find_mention_for searches.                     *)
(***************************************************************************)
\* The name records are matched by for the command the call resolved.
RootOf(f) == Head(Val(finder'[f]._command).qualified_name)

\* The step in which call f, made with a guild, searches the guild's list: the call
\* itself when the guild has a cache entry, else the return of the guild's fetch.
LocalSearched(f) ==
    /\ finder'[f].guild # NoGuild
    /\ ~IsNone(finder'[f]._command)
    /\ \/ FindCalled(f) /\ finder'[f].guild \in DOMAIN application_commands
       \/ finder[f].pc = "fetching_local" /\ finder'[f].pc \in {"fetching_global", "done"}

\* The mention of the command the call resolved, carrying the identifier the registry
\* assigned to its root under the scope.
MentionIn(f, scope) ==
    Some(<<"</", Val(finder'[f]._command).qualified_name, ":", RemoteId(scope, RootOf(f)), ">">>)

\* What a search of the global entry returns for call f.
GlobalOutcome(f) ==
    IF IdsOf(application_commands'[NoGuild], RootOf(f)) = {} THEN None
    ELSE MentionIn(f, NoGuild)

\* C15: a call made with a guild always considers the global scope too, whatever
\* fallback_to_global is: a name the guild does not declare is looked up among the
\* global declarations, and when the guild's list holds no record of the target name
\* the global entry is searched, fetched first when it is cold, and a record found
\* there gives the mention with the global record's identifier.
C15_ScopedLookupConsidersGlobal ==
    [][\A f \in Finders :
        /\ (FindCalled(f) /\ finder'[f].guild # NoGuild) => finder'[f].check_global
        /\ \A str \in QualifiedNames, g \in Guilds :
              (FindCall(f, str, None, g) /\ ~Declares(g, str) /\ Declares(NoGuild, str)) =>
                  /\ ~IsNone(finder'[f]._command)
                  /\ Val(finder'[f]._command).qualified_name = str
                  /\ Val(finder'[f]._command) \in Range(walk_commands(tree, NoGuild))
        /\ (LocalSearched(f)
                /\ IdsOf(application_commands'[finder'[f].guild], RootOf(f)) = {}) =>
              IF NoGuild \in DOMAIN application_commands'
              THEN finder'[f].pc = "done" /\ finder'[f].result = GlobalOutcome(f)
              ELSE finder'[f].pc = "fetching_global" /\ Fetches(f, NoGuild)
        /\ (finder[f].pc = "fetching_global" /\ finder'[f].pc = "done"
                /\ finder'[f].guild # NoGuild) =>
              finder'[f].result = GlobalOutcome(f)]_vars

\* C15 witness: with fallback_to_global off, a call for "play" with guild B, which
\* declares and lists nothing, fetched both scopes and returned the mention carrying
\* the global record's identifier.
C15_Witness ==
    /\ ~fallback_to_global
    /\ \E f \in Finders :
        /\ finder[f].pc = "done" /\ finder[f].guild = "B"
        /\ finder[f].fetched = <<"B", NoGuild>>
        /\ finder[f].result = Some(<<"</", <<"play">>, ":", RemoteId(NoGuild, "play"), ">">>)

\* C16: the scoped hit is preferred. A name the guild declares resolves to the
\* guild's declaration, also when a global command has the same name; and when the
\* guild's list holds a record of the target name, the call returns the mention with
\* that record's identifier in the step that searched the list, without fetching or
\* changing the global entry, whatever the global entry holds.
C16_ScopedHitPreferred ==
    [][\A f \in Finders :
        /\ \A str \in QualifiedNames, g \in Guilds :
              (FindCall(f, str, None, g) /\ Declares(g, str)) =>
                  /\ ~IsNone(finder'[f]._command)
                  /\ Val(finder'[f]._command).qualified_name = str
                  /\ Val(finder'[f]._command) \in Range(walk_commands(tree, g))
        /\ (LocalSearched(f)
                /\ IdsOf(application_commands'[finder'[f].guild], RootOf(f)) # {}) =>
              /\ finder'[f].pc = "done"
              /\ finder'[f].result = MentionIn(f, finder'[f].guild)
              /\ NoGuild \notin Range(finder'[f].fetched)
              /\ (NoGuild \in DOMAIN application_commands')
                    = (NoGuild \in DOMAIN application_commands)
              /\ NoGuild \in DOMAIN application_commands =>
                    application_commands'[NoGuild] = application_commands[NoGuild]
        /\ Fetches(f, NoGuild) =>
              \/ finder'[f].guild = NoGuild
              \/ /\ finder'[f].guild \in DOMAIN application_commands'
                 /\ IdsOf(application_commands'[finder'[f].guild], RootOf(f)) = {}]_vars

\* C16 witness: "play" is declared for guild A and globally; the call for ("play", A)
\* resolved A's declaration and returned A's record's identifier although the global
\* entry holds a record named "play".
C16_Witness ==
    \E f \in Finders :
        /\ finder[f].pc = "done" /\ finder[f].guild = "A"
        /\ Declares("A", <<"play">>) /\ Declares(NoGuild, <<"play">>)
        /\ finder[f]._command = Some(Walked(<<"play">>, "play", None, "t1"))
        /\ finder[f].fetched = <<>>
        /\ NoGuild \in DOMAIN application_commands
        /\ IdsOf(application_commands[NoGuild], "play") = {RemoteId(NoGuild, "play")}
        /\ finder[f].result = Some(<<"</", <<"play">>, ":", RemoteId("A", "play"), ">">>)

(***************************************************************************)
(* Properties of sync_if_commands_updated when the hash file's storage     *)
(* fails.                                                                  *)
(***************************************************************************)
\* C19: a failure of the hash file's storage ends sync_if_commands_updated with the
\* error. When the file cannot be opened or read, nothing is pushed; when the write
\* fails after the push succeeded, the file keeps the old digest, not the new one,
\* and the next startup over the same commands that reads the file pushes again.
C19_PersistenceFailureSurfaces ==
    [][\A i \in Syncers :
        /\ SyncOpenFail(i) =>
              /\ syncer'[i].pc = "failed" /\ syncer'[i].error = "OSError"
              /\ syncer'[i].npush = 0
              /\ remote' = remote /\ application_commands' = application_commands
              /\ file' = file
        /\ SyncWriteFail(i) =>
              /\ syncer'[i].pc = "failed" /\ syncer'[i].error = "OSError"
              /\ syncer'[i].nwrite = 0
              /\ file' = file /\ last_synced' = last_synced
              /\ syncer[i].clean =>
                    /\ file' # syncer[i].tree_hash
                    /\ interrupted' = Some([tree_hash |-> syncer[i].tree_hash,
                                            data |-> file'])
        /\ (syncer[i].pc = "idle" /\ syncer'[i].pc \in {"pushing", "done"}
                /\ ~IsNone(interrupted)
                /\ get_hash(tree) = Val(interrupted).tree_hash) =>
              syncer'[i].pc = "pushing" /\ syncer'[i].npush = 1]_vars

\* C19 witness: the push succeeded and its result is cached, the write failed: the
\* invocation ended with OSError and the file does not hold the new digest.
C19_Witness ==
    \E i \in Syncers :
        /\ syncer[i].pc = "failed" /\ syncer[i].error = "OSError"
        /\ syncer[i].npush = 1 /\ syncer[i].nwrite = 0
        /\ NoGuild \in DOMAIN application_commands
        /\ application_commands[NoGuild] = RecordsFor(syncer[i].pushed, NoGuild)
        /\ file # syncer[i].tree_hash
        /\ interrupted = Some([tree_hash |-> syncer[i].tree_hash, data |-> file])

Completes(s) ==
    \/ Sync(s)
    \/ FetchCommands(s)
    \/ s = NoGuild /\ \E i \in Syncers : SyncWrote(i)
    \/ \E f \in Finders :
          \/ /\ finder[f].pc = "fetching_local" /\ s = finder[f].guild
             /\ finder'[f].pc \in {"fetching_global", "done"}
          \/ /\ finder[f].pc = "fetching_global" /\ s = NoGuild
             /\ finder'[f].pc = "done"

\* C18: while the process lives, a scope that has a cache entry keeps one, whatever
\* push, fetch, find_mention_for or sync_if_commands_updated do, failures included,
\* and an entry is set or changed only by the step that completes a successful push
\* or fetch of that scope.
C18_CacheNeverInvalidated ==
    [][~Restart =>
          /\ DOMAIN application_commands \subseteq DOMAIN application_commands'
          /\ \A s \in Scopes : EntryChanges(s) => Completes(s)]_vars

\* C18 witness: every scope has its entry after a push and a fetch have failed.
C18_Witness ==
    /\ DOMAIN application_commands = Scopes
    /\ \E i \in Syncers : syncer[i].pc = "failed"
    /\ \E f \in Finders : finder[f].pc = "failed"

(***************************************************************************)
(* Properties of on_error.                                                 *)
(***************************************************************************)
\* C20: when on_error has handled a MusicBotError, exactly one message was sent by it,
\* with the error's message as content, as the initial response when the command had
\* neither deferred nor sent anything and as a follow-up otherwise, and the default
\* handler was not called; for any other error the default handler was called once
\* and on_error sent nothing.
C20_OnErrorDispatch ==
    /\ itx.pc \in {"idle", "running", "raised", "send_message", "followup_send",
                     "super_on_error"} =>
          Len(itx.sent) = itx.replies /\ itx.super_on_error = 0
    /\ itx.pc = "handled" =>
          IF Val(itx.error).type = "MusicBotError"
          THEN /\ Len(itx.sent) = itx.replies + 1
               /\ itx.sent[Len(itx.sent)].content = Val(itx.error).message
               /\ itx.sent[Len(itx.sent)].via =
                     (IF itx.deferred \/ itx.replies > 0 THEN "followup" ELSE "response")
               /\ itx.super_on_error = 0
          ELSE /\ Len(itx.sent) = itx.replies
               /\ itx.super_on_error = 1

\* C20 witness: the command had deferred the interaction and sent nothing when it
\* raised MusicBotError("m1"); the user got "m1" as a follow-up.
C20_Witness ==
    /\ itx.pc = "handled" /\ itx.deferred /\ itx.replies = 0
    /\ itx.error = Some([type |-> "MusicBotError", message |-> "m1"])
    /\ itx.sent = <<[via |-> "followup", content |-> "m1"]>>
    /\ itx.super_on_error = 0
====
